---- MODULE Spec2Model ----
(***************************************************************************)
(* The two backings of the maze graph, EdgeListGraph                       *)
(* (src/maze/edgeListGraph.py) and IncMatGraph                             *)
(* (src/maze/incidenceMatGraph.py), driven side by side by one caller      *)
(* that applies every mutating call to both objects.                       *)
(*                                                                         *)
(* An edge is the Python tuple (vert1, vert2, wallStatus), modelled as a   *)
(* 3-tuple.  A Python list is a sequence; Python positions are 0-based,    *)
(* TLA+ positions 1-based, so Python position i is TLA+ position i + 1.    *)
(* The dict IncMatGraph.vertices is modelled as the sequence of its        *)
(* <<key, value>> items in insertion order, which is how a Python dict     *)
(* keeps them.                                                             *)
(***************************************************************************)
EXTENDS Integers, Sequences, FiniteSets, TLC

\* Bound on the length of the edge collections: the caller does not call
\* addEdge once this many edges are stored.
MaxEdges == 2

\* The labels the caller uses (maze.util.Coordinates values, compared by value).
Coordinates == { <<0, 0>>, <<0, 1>>, <<1, 0>> }

\* The pairs the caller passes to addEdge: every ordered pair of distinct
\* labels, and one self-loop.  updateWall and removeEdge are called with
\* every ordered pair.
EdgeCalls ==
    { p \in Coordinates \X Coordinates : p[1] /= p[2] } \cup { << <<0, 0>>, <<0, 0>> >> }

\* The lists the caller hands to addVertices: no label, one label, or two
\* labels that may be equal.
VertexLists ==
    { << >> } \cup { << a >> : a \in Coordinates }
              \cup { << a, b >> : a \in Coordinates, b \in Coordinates }

VARIABLES
    el_vertices,    \* EdgeListGraph.vertices : set of Coordinates
    el_edges,       \* EdgeListGraph.edges    : list of (v1, v2, wall)
    im_vertices,    \* IncMatGraph.vertices   : dict Coordinates -> index
    im_edges,       \* IncMatGraph.edges      : list of (v1, v2, wall)
    incidence_mat,  \* IncMatGraph.incidence_mat : list of rows of 0/1
    lastOp          \* the last method called on both objects and what each returned

vars == << el_vertices, el_edges, im_vertices, im_edges, incidence_mat, lastOp >>

----------------------------------------------------------------------------
(* Python list helpers *)

\* list.append(x)
ListAppend(l, x) == Append(l, x)

\* list.pop(i) with a 0-based position i: the list without that element.
ListPop(l, i) ==
    [ k \in 1 .. (Len(l) - 1) |-> IF k < i + 1 THEN l[k] ELSE l[k + 1] ]

\* [0] * n
Zeros(n) == [ k \in 1 .. n |-> 0 ]

\* The loop `for i, e in enumerate(edges): if <test on e>: ...; return True`
\* acts on the first position whose test holds.  hit[k] is the test on
\* edges[k]; the result is that position, 0-based, or -1 when the loop runs
\* off the end.
RECURSIVE FirstHitFrom(_, _)
FirstHitFrom(hit, k) ==
    IF k > Len(hit) THEN -1
    ELSE IF hit[k] THEN k - 1
    ELSE FirstHitFrom(hit, k + 1)

FirstHit(hit) == FirstHitFrom(hit, 1)

----------------------------------------------------------------------------
(* EdgeListGraph *)

EL_hasVertex(vertices, label) == label \in vertices

\* Mutation: the set is replaced by the new label instead of extended.
EL_addVertex_replace(vertices, label) == { label }

EL_addVertex(vertices, label) == vertices \cup {label}

RECURSIVE EL_addVertices(_, _)
EL_addVertices(vertices, vertLabels) ==
    IF vertLabels = << >> THEN vertices
    ELSE EL_addVertices(EL_addVertex(vertices, Head(vertLabels)), Tail(vertLabels))

\* Mutation: only the stored orientation is tested.
EL_hasEdge_oneWay(edges, vert1, vert2) ==
    \E k \in 1 .. Len(edges) : edges[k][1] = vert1 /\ edges[k][2] = vert2

EL_hasEdge(edges, vert1, vert2) ==
    \E k \in 1 .. Len(edges) :
        \/ (edges[k][1] = vert1 /\ edges[k][2] = vert2)
        \/ (edges[k][2] = vert1 /\ edges[k][1] = vert2)

\* Mutation: the two hasVertex tests are missing.
EL_addEdge_noVertexCheck(vertices, edges, vert1, vert2, addWall) ==
    IF ~EL_hasEdge(edges, vert1, vert2)
    THEN [ edges |-> ListAppend(edges, << vert1, vert2, addWall >>), ret |-> TRUE ]
    ELSE [ edges |-> edges, ret |-> FALSE ]

\* Mutation: the first endpoint is stored in both places of the tuple.
EL_addEdge_firstTwice(vertices, edges, vert1, vert2, addWall) ==
    IF ~EL_hasVertex(vertices, vert1) \/ ~EL_hasVertex(vertices, vert2)
    THEN [ edges |-> edges, ret |-> FALSE ]
    ELSE IF ~EL_hasEdge(edges, vert1, vert2)
         THEN [ edges |-> ListAppend(edges, << vert1, vert1, addWall >>), ret |-> TRUE ]
         ELSE [ edges |-> edges, ret |-> FALSE ]

\* Mutation: a duplicate addEdge writes its addWall into the stored edge
\* before it returns False.
EL_addEdge_overwrite(vertices, edges, vert1, vert2, addWall) ==
    IF ~EL_hasVertex(vertices, vert1) \/ ~EL_hasVertex(vertices, vert2)
    THEN [ edges |-> edges, ret |-> FALSE ]
    ELSE IF ~EL_hasEdge(edges, vert1, vert2)
         THEN [ edges |-> ListAppend(edges, << vert1, vert2, addWall >>), ret |-> TRUE ]
         ELSE [ edges |-> [ k \in 1 .. Len(edges) |->
                              IF { edges[k][1], edges[k][2] } = { vert1, vert2 }
                              THEN << edges[k][1], edges[k][2], addWall >>
                              ELSE edges[k] ],
                ret |-> FALSE ]

\* Result of addEdge: the new edge list and the value returned.
EL_addEdge(vertices, edges, vert1, vert2, addWall) ==
    IF ~EL_hasVertex(vertices, vert1) \/ ~EL_hasVertex(vertices, vert2)
    THEN [ edges |-> edges, ret |-> FALSE ]
    ELSE IF ~EL_hasEdge(edges, vert1, vert2)
         THEN [ edges |-> ListAppend(edges, << vert1, vert2, addWall >>), ret |-> TRUE ]
         ELSE [ edges |-> edges, ret |-> FALSE ]

\* Mutation: the reversed orientation is not tested.
EL_updateWall_oneWay(edges, vert1, vert2, wallStatus) ==
    LET hit == [ k \in 1 .. Len(edges) |-> edges[k][1] = vert1 /\ edges[k][2] = vert2 ]
        i == FirstHit(hit)
    IN  IF i >= 0
        THEN [ edges |-> [ edges EXCEPT ![i + 1] = << edges[i + 1][1], edges[i + 1][2], wallStatus >> ],
               ret |-> TRUE ]
        ELSE [ edges |-> edges, ret |-> FALSE ]

\* Result of updateWall: the new edge list and the value returned.
EL_updateWall(edges, vert1, vert2, wallStatus) ==
    LET hit == [ k \in 1 .. Len(edges) |->
                    \/ (edges[k][1] = vert1 /\ edges[k][2] = vert2)
                    \/ (edges[k][1] = vert2 /\ edges[k][2] = vert1) ]
        i == FirstHit(hit)
    IN  IF i >= 0
        THEN [ edges |-> [ edges EXCEPT ![i + 1] = << edges[i + 1][1], edges[i + 1][2], wallStatus >> ],
               ret |-> TRUE ]
        ELSE [ edges |-> edges, ret |-> FALSE ]

\* Mutation: the reversed orientation is not tested.
EL_removeEdge_oneWay(edges, vert1, vert2) ==
    LET hit == [ k \in 1 .. Len(edges) |-> edges[k][1] = vert1 /\ edges[k][2] = vert2 ]
        i == FirstHit(hit)
    IN  IF i >= 0
        THEN [ edges |-> ListPop(edges, i), ret |-> TRUE ]
        ELSE [ edges |-> edges, ret |-> FALSE ]

\* Result of removeEdge: the new edge list and the value returned.
EL_removeEdge(edges, vert1, vert2) ==
    LET hit == [ k \in 1 .. Len(edges) |->
                    \/ (edges[k][1] = vert1 /\ edges[k][2] = vert2)
                    \/ (edges[k][1] = vert2 /\ edges[k][2] = vert1) ]
        i == FirstHit(hit)
    IN  IF i >= 0
        THEN [ edges |-> ListPop(edges, i), ret |-> TRUE ]
        ELSE [ edges |-> edges, ret |-> FALSE ]

\* Mutation: only the stored orientation (v1, v2) is compared.
EL_getWallStatus_oneWay(edges, vert1, vert2) ==
    LET hit == [ k \in 1 .. Len(edges) |->
                    edges[k][1] = vert1 /\ edges[k][2] = vert2 ]
        i == FirstHit(hit)
    IN  IF i >= 0 THEN edges[i + 1][3] ELSE FALSE

EL_getWallStatus(edges, vert1, vert2) ==
    LET hit == [ k \in 1 .. Len(edges) |->
                    \/ (edges[k][1] = vert1 /\ edges[k][2] = vert2)
                    \/ (edges[k][1] = vert2 /\ edges[k][2] = vert1) ]
        i == FirstHit(hit)
    IN  IF i >= 0 THEN edges[i + 1][3] ELSE FALSE

\* Mutation: `if` where the code has `elif`.
RECURSIVE EL_neighboursUpTo_ifIf(_, _, _)
EL_neighboursUpTo_ifIf(edges, label, n) ==
    IF n = 0 THEN << >>
    ELSE LET prev == EL_neighboursUpTo_ifIf(edges, label, n - 1)
             v1 == edges[n][1]
             v2 == edges[n][2]
             first == IF v1 = label THEN ListAppend(prev, v2) ELSE prev
         IN  IF v2 = label THEN ListAppend(first, v1) ELSE first

\* The list built by the loop of neighbours over the first n edges.
RECURSIVE EL_neighboursUpTo(_, _, _)
EL_neighboursUpTo(edges, label, n) ==
    IF n = 0 THEN << >>
    ELSE LET prev == EL_neighboursUpTo(edges, label, n - 1)
             v1 == edges[n][1]
             v2 == edges[n][2]
         IN  IF v1 = label THEN ListAppend(prev, v2)
             ELSE IF v2 = label THEN ListAppend(prev, v1)
             ELSE prev

EL_neighbours(edges, label) == EL_neighboursUpTo(edges, label, Len(edges))

----------------------------------------------------------------------------
(* IncMatGraph *)

\* label in self.vertices
IM_hasVertex(vertices, label) ==
    \E k \in 1 .. Len(vertices) : vertices[k][1] = label

\* self.vertices[label], for a label that is a key
IM_index(vertices, label) ==
    vertices[CHOOSE k \in 1 .. Len(vertices) : vertices[k][1] = label][2]

\* Mutation: the edge count where the code has the vertex count.
IM_newIndex_edgeCount(vertices, edges) == Len(edges)

\* The index addVertex gives a new vertex: len(self.vertices).
IM_newIndex(vertices, edges) == Len(vertices)

\* Mutation: the new row is left empty.
IM_newRow_empty(edges) == << >>

\* The row addVertex appends to the matrix: [0] * len(self.edges).
IM_newRow(edges) == Zeros(Len(edges))

\* Mutation: the hasVertex test is missing, so a repeated key gets a new
\* index (its item keeps its place in the dict) and one more row is added.
IM_addVertex_noGuard(vertices, edges, mat, label) ==
    IF IM_hasVertex(vertices, label)
    THEN [ vertices |-> [ k \in 1 .. Len(vertices) |->
                            IF vertices[k][1] = label
                            THEN << label, IM_newIndex(vertices, edges) >>
                            ELSE vertices[k] ],
           mat |-> ListAppend(mat, IM_newRow(edges)) ]
    ELSE [ vertices |-> ListAppend(vertices, << label, IM_newIndex(vertices, edges) >>),
           mat |-> ListAppend(mat, IM_newRow(edges)) ]

\* Result of addVertex: the new dict and the new matrix.
IM_addVertex(vertices, edges, mat, label) ==
    IF ~IM_hasVertex(vertices, label)
    THEN [ vertices |-> ListAppend(vertices, << label, IM_newIndex(vertices, edges) >>),
           mat |-> ListAppend(mat, IM_newRow(edges)) ]
    ELSE [ vertices |-> vertices, mat |-> mat ]

\* Mutation: the list is walked from its last element to its first.
RECURSIVE IM_addVertices_reversed(_, _, _, _)
IM_addVertices_reversed(vertices, edges, mat, vertLabels) ==
    IF vertLabels = << >> THEN [ vertices |-> vertices, mat |-> mat ]
    ELSE LET n == Len(vertLabels)
             r == IM_addVertex(vertices, edges, mat, vertLabels[n])
         IN  IM_addVertices_reversed(r.vertices, edges, r.mat, SubSeq(vertLabels, 1, n - 1))

RECURSIVE IM_addVertices(_, _, _, _)
IM_addVertices(vertices, edges, mat, vertLabels) ==
    IF vertLabels = << >> THEN [ vertices |-> vertices, mat |-> mat ]
    ELSE LET r == IM_addVertex(vertices, edges, mat, Head(vertLabels))
         IN  IM_addVertices(r.vertices, edges, r.mat, Tail(vertLabels))

\* Mutation: only the stored orientation is tested.
IM_hasEdge_oneWay(edges, vert1, vert2) ==
    \E k \in 1 .. Len(edges) : edges[k][1] = vert1 /\ edges[k][2] = vert2

IM_hasEdge(edges, vert1, vert2) ==
    \E k \in 1 .. Len(edges) :
        \/ (edges[k][1] = vert1 /\ edges[k][2] = vert2)
        \/ (edges[k][1] = vert2 /\ edges[k][2] = vert1)

\* mat[row][col] = val with 0-based row and col
SetCell(mat, row, col, val) ==
    [ mat EXCEPT ![row + 1] = [ @ EXCEPT ![col + 1] = val ] ]

\* for row in self.incidence_mat: row.append(0)
IM_appendColumn(mat) == [ r \in 1 .. Len(mat) |-> ListAppend(mat[r], 0) ]

\* Mutation: row.pop() where the code has row.pop(i).
IM_popColumn_last(mat, i) ==
    [ r \in 1 .. Len(mat) |-> ListPop(mat[r], Len(mat[r]) - 1) ]

\* for row in self.incidence_mat: row.pop(i)
IM_popColumn(mat, i) == [ r \in 1 .. Len(mat) |-> ListPop(mat[r], i) ]

\* Mutation: the second endpoint's cell is not set.
IM_connect_firstOnly(vertices, mat, vert1, vert2, index) ==
    SetCell(mat, IM_index(vertices, vert1), index, 1)

\* self.incidence_mat[self.vertices[vert1]][index] = 1, then the same for vert2
IM_connect(vertices, mat, vert1, vert2, index) ==
    SetCell(SetCell(mat, IM_index(vertices, vert1), index, 1),
            IM_index(vertices, vert2), index, 1)

\* Mutation: the tuple is stored with its endpoints exchanged.
IM_addEdge_swapped(vertices, edges, mat, vert1, vert2, addWall) ==
    IF ~IM_hasVertex(vertices, vert1) \/ ~IM_hasVertex(vertices, vert2)
    THEN [ edges |-> edges, mat |-> mat, ret |-> FALSE ]
    ELSE IF IM_hasEdge(edges, vert1, vert2)
    THEN [ edges |-> edges, mat |-> mat, ret |-> FALSE ]
    ELSE LET edges1 == ListAppend(edges, << vert2, vert1, addWall >>)
             mat1 == IM_appendColumn(mat)
             index == Len(edges1) - 1
         IN  [ edges |-> edges1,
               mat |-> IM_connect(vertices, mat1, vert1, vert2, index),
               ret |-> TRUE ]

\* Mutation: an edge from a vertex to itself is refused.
IM_addEdge_noLoops(vertices, edges, mat, vert1, vert2, addWall) ==
    IF ~IM_hasVertex(vertices, vert1) \/ ~IM_hasVertex(vertices, vert2) \/ vert1 = vert2
    THEN [ edges |-> edges, mat |-> mat, ret |-> FALSE ]
    ELSE IF IM_hasEdge(edges, vert1, vert2)
    THEN [ edges |-> edges, mat |-> mat, ret |-> FALSE ]
    ELSE LET edges1 == ListAppend(edges, << vert1, vert2, addWall >>)
             mat1 == IM_appendColumn(mat)
             index == Len(edges1) - 1
         IN  [ edges |-> edges1,
               mat |-> IM_connect(vertices, mat1, vert1, vert2, index),
               ret |-> TRUE ]

\* Result of addEdge: the new edge list, the new matrix, the value returned.
IM_addEdge(vertices, edges, mat, vert1, vert2, addWall) ==
    IF ~IM_hasVertex(vertices, vert1) \/ ~IM_hasVertex(vertices, vert2)
    THEN [ edges |-> edges, mat |-> mat, ret |-> FALSE ]
    ELSE IF IM_hasEdge(edges, vert1, vert2)
    THEN [ edges |-> edges, mat |-> mat, ret |-> FALSE ]
    ELSE LET edges1 == ListAppend(edges, << vert1, vert2, addWall >>)
             mat1 == IM_appendColumn(mat)
             index == Len(edges1) - 1
         IN  [ edges |-> edges1,
               mat |-> IM_connect(vertices, mat1, vert1, vert2, index),
               ret |-> TRUE ]

\* Mutation: the tuple is rewritten with the endpoints in the order of the
\* call, not in the order they were stored.
IM_updateWall_asCalled(edges, vert1, vert2, wallStatus) ==
    LET hit == [ k \in 1 .. Len(edges) |->
                    \/ (edges[k][1] = vert1 /\ edges[k][2] = vert2)
                    \/ (edges[k][1] = vert2 /\ edges[k][2] = vert1) ]
        i == FirstHit(hit)
    IN  IF i >= 0
        THEN [ edges |-> [ edges EXCEPT ![i + 1] = << vert1, vert2, wallStatus >> ],
               ret |-> TRUE ]
        ELSE [ edges |-> edges, ret |-> FALSE ]

\* Result of updateWall: the new edge list and the value returned.
IM_updateWall(edges, vert1, vert2, wallStatus) ==
    LET hit == [ k \in 1 .. Len(edges) |->
                    \/ (edges[k][1] = vert1 /\ edges[k][2] = vert2)
                    \/ (edges[k][1] = vert2 /\ edges[k][2] = vert1) ]
        i == FirstHit(hit)
    IN  IF i >= 0
        THEN [ edges |-> [ edges EXCEPT ![i + 1] = << edges[i + 1][1], edges[i + 1][2], wallStatus >> ],
               ret |-> TRUE ]
        ELSE [ edges |-> edges, ret |-> FALSE ]

\* Result of removeEdge: the new edge list, the new matrix, the value returned.
IM_removeEdge(edges, mat, vert1, vert2) ==
    LET hit == [ k \in 1 .. Len(edges) |->
                    \/ (edges[k][1] = vert1 /\ edges[k][2] = vert2)
                    \/ (edges[k][2] = vert1 /\ edges[k][1] = vert2) ]
        i == FirstHit(hit)
    IN  IF i >= 0
        THEN [ edges |-> ListPop(edges, i), mat |-> IM_popColumn(mat, i), ret |-> TRUE ]
        ELSE [ edges |-> edges, mat |-> mat, ret |-> FALSE ]

IM_getWallStatus(edges, vert1, vert2) ==
    LET hit == [ k \in 1 .. Len(edges) |->
                    \/ (edges[k][1] = vert1 /\ edges[k][2] = vert2)
                    \/ (edges[k][2] = vert1 /\ edges[k][1] = vert2) ]
        i == FirstHit(hit)
    IN  IF i >= 0 THEN edges[i + 1][3] ELSE FALSE

\* Mutation: the far endpoint is always taken to be v2.
RECURSIVE IM_neighboursUpTo_alwaysV2(_, _, _, _, _)
IM_neighboursUpTo_alwaysV2(edges, mat, index, label, n) ==
    IF n = 0 THEN << >>
    ELSE LET prev == IM_neighboursUpTo_alwaysV2(edges, mat, index, label, n - 1)
         IN  IF mat[index + 1][n] = 1 THEN ListAppend(prev, edges[n][2]) ELSE prev

\* The list built by the loop of neighbours over the first n edges, reading
\* row `index` of the matrix.
RECURSIVE IM_neighboursUpTo(_, _, _, _, _)
IM_neighboursUpTo(edges, mat, index, label, n) ==
    IF n = 0 THEN << >>
    ELSE LET prev == IM_neighboursUpTo(edges, mat, index, label, n - 1)
             v1 == edges[n][1]
             v2 == edges[n][2]
         IN  IF mat[index + 1][n] = 1
             THEN IF v1 = label THEN ListAppend(prev, v2) ELSE ListAppend(prev, v1)
             ELSE prev

IM_neighbours(vertices, edges, mat, label) ==
    IF IM_hasVertex(vertices, label)
    THEN IM_neighboursUpTo(edges, mat, IM_index(vertices, label), label, Len(edges))
    ELSE << >>

----------------------------------------------------------------------------
(* The caller: every call goes to both objects *)

\* The value addEdge gives addWall when the caller passes two arguments.
DefaultAddWall == FALSE

\* The record kept of a call: the method and the value each object returned.
\* addVertex and addVertices return nothing; their record holds FALSE.
Call(op, ret_el, ret_im) == [ op |-> op, ret_el |-> ret_el, ret_im |-> ret_im ]

Init ==
    /\ el_vertices = {}
    /\ el_edges = << >>
    /\ im_vertices = << >>
    /\ im_edges = << >>
    /\ incidence_mat = << >>
    /\ lastOp = Call("init", FALSE, FALSE)

AddVertex(label) ==
    LET im == IM_addVertex(im_vertices, im_edges, incidence_mat, label) IN
    /\ el_vertices' = EL_addVertex(el_vertices, label)
    /\ im_vertices' = im.vertices
    /\ incidence_mat' = im.mat
    /\ lastOp' = Call("addVertex", FALSE, FALSE)
    /\ UNCHANGED << el_edges, im_edges >>

AddVertices(vertLabels) ==
    LET im == IM_addVertices(im_vertices, im_edges, incidence_mat, vertLabels) IN
    /\ el_vertices' = EL_addVertices(el_vertices, vertLabels)
    /\ im_vertices' = im.vertices
    /\ incidence_mat' = im.mat
    /\ lastOp' = Call("addVertices", FALSE, FALSE)
    /\ UNCHANGED << el_edges, im_edges >>

\* addEdge(vert1, vert2, addWall)
AddEdge(vert1, vert2, addWall) ==
    LET el == EL_addEdge(el_vertices, el_edges, vert1, vert2, addWall)
        im == IM_addEdge(im_vertices, im_edges, incidence_mat, vert1, vert2, addWall)
    IN  /\ Len(el_edges) < MaxEdges
        /\ Len(im_edges) < MaxEdges
        /\ el_edges' = el.edges
        /\ im_edges' = im.edges
        /\ incidence_mat' = im.mat
        /\ lastOp' = Call("addEdge", el.ret, im.ret)
        /\ UNCHANGED << el_vertices, im_vertices >>

\* addEdge(vert1, vert2): addWall takes its default
AddEdgeDefault(vert1, vert2) == AddEdge(vert1, vert2, DefaultAddWall)

UpdateWall(vert1, vert2, wallStatus) ==
    LET el == EL_updateWall(el_edges, vert1, vert2, wallStatus)
        im == IM_updateWall(im_edges, vert1, vert2, wallStatus)
    IN  /\ el_edges' = el.edges
        /\ im_edges' = im.edges
        /\ lastOp' = Call("updateWall", el.ret, im.ret)
        /\ UNCHANGED << el_vertices, im_vertices, incidence_mat >>

RemoveEdge(vert1, vert2) ==
    LET el == EL_removeEdge(el_edges, vert1, vert2)
        im == IM_removeEdge(im_edges, incidence_mat, vert1, vert2)
    IN  /\ el_edges' = el.edges
        /\ im_edges' = im.edges
        /\ incidence_mat' = im.mat
        /\ lastOp' = Call("removeEdge", el.ret, im.ret)
        /\ UNCHANGED << el_vertices, im_vertices >>

Next ==
    \/ \E label \in Coordinates : AddVertex(label)
    \/ \E vertLabels \in VertexLists : AddVertices(vertLabels)
    \/ \E p \in EdgeCalls, addWall \in BOOLEAN : AddEdge(p[1], p[2], addWall)
    \/ \E p \in EdgeCalls : AddEdgeDefault(p[1], p[2])
    \/ \E vert1 \in Coordinates, vert2 \in Coordinates, wallStatus \in BOOLEAN :
           UpdateWall(vert1, vert2, wallStatus)
    \/ \E vert1 \in Coordinates, vert2 \in Coordinates : RemoveEdge(vert1, vert2)

Spec == Init /\ [][Next]_vars

----------------------------------------------------------------------------
(* Vocabulary of the properties, stated on the stored data rather than     *)
(* through the objects' methods.                                           *)

\* The keys of the dict IncMatGraph.vertices.
IM_keys(vertices) == { vertices[k][1] : k \in 1 .. Len(vertices) }

\* The positions (1-based) of the stored edges that join the unordered
\* pair {a, b}.
PositionsOfPair(edges, a, b) ==
    { k \in 1 .. Len(edges) : { edges[k][1], edges[k][2] } = { a, b } }

\* Some stored edge joins the unordered pair {a, b}.
StoresPair(edges, a, b) == PositionsOfPair(edges, a, b) /= {}

\* The elements of a list, as a set.
Elements(l) == { l[k] : k \in 1 .. Len(l) }

\* No element occurs twice in the list.
NoRepeat(l) == \A j \in 1 .. Len(l), k \in 1 .. Len(l) : l[j] = l[k] => j = k

\* Column c (1-based) of the matrix, read down the rows.
Column(mat, c) == [ r \in 1 .. Len(mat) |-> mat[r][c] ]

----------------------------------------------------------------------------
\* C1: cross-backing equivalence.  After every prefix of calls applied to
\* both objects, the two agree on hasVertex(v) for every v, on
\* hasEdge(v1, v2) and getWallStatus(v1, v2) for every pair, and on
\* neighbours(v) compared as sets for every v.
C1_CrossBackingEquivalence ==
    /\ \A v \in Coordinates :
           /\ EL_hasVertex(el_vertices, v) = IM_hasVertex(im_vertices, v)
           /\ Elements(EL_neighbours(el_edges, v))
                  = Elements(IM_neighbours(im_vertices, im_edges, incidence_mat, v))
    /\ \A v1 \in Coordinates, v2 \in Coordinates :
           /\ EL_hasEdge(el_edges, v1, v2) = IM_hasEdge(im_edges, v1, v2)
           /\ EL_getWallStatus(el_edges, v1, v2) = IM_getWallStatus(im_edges, v1, v2)

\* A removal has just succeeded and left an edge that is stored with the
\* queried vertex as its second endpoint, so both branches of the two
\* neighbours loops have been taken and the answers are not empty.
C1_Witness ==
    /\ lastOp.op = "removeEdge" /\ lastOp.ret_el /\ lastOp.ret_im
    /\ Len(el_edges) >= 1 /\ Len(im_edges) >= 1
    /\ \E v \in Coordinates :
           /\ im_edges[1][2] = v /\ im_edges[1][1] /= v
           /\ IM_neighbours(im_vertices, im_edges, incidence_mat, v) /= << >>
           /\ EL_neighbours(el_edges, v) /= << >>

----------------------------------------------------------------------------
\* The rows (1-based) of the matrix that belong to the endpoints of edge e.
EndpointRows(vertices, e) ==
    { vertices[k][2] + 1 : k \in { j \in 1 .. Len(vertices) : vertices[j][1] \in { e[1], e[2] } } }

\* C2 as stated: every column of incidence_mat holds exactly two cells
\* equal to 1, in the rows of the two endpoints of its edge, and 0 elsewhere.
C2_TwoOnesPerColumn ==
    \A c \in 1 .. Len(im_edges) :
        LET ones == { r \in 1 .. Len(incidence_mat) : incidence_mat[r][c] = 1 } IN
        /\ Cardinality(ones) = 2
        /\ ones = EndpointRows(im_vertices, im_edges[c])
        /\ \A r \in 1 .. Len(incidence_mat) : incidence_mat[r][c] \in { 0, 1 }

\* C2 as amended: in every column of incidence_mat the cells equal to 1 are
\* exactly the cells in the rows of the endpoints of its edge, two cells when
\* the endpoints differ and one cell when the edge is a self-loop; every
\* other cell of the column is 0.
C2_OnesAtEndpointRows ==
    \A c \in 1 .. Len(im_edges) :
        LET ones == { r \in 1 .. Len(incidence_mat) : incidence_mat[r][c] = 1 }
            e == im_edges[c]
        IN  /\ ones = EndpointRows(im_vertices, e)
            /\ Cardinality(ones) = (IF e[1] = e[2] THEN 1 ELSE 2)
            /\ \A r \in 1 .. Len(incidence_mat) : incidence_mat[r][c] \in { 0, 1 }

\* addEdge has just stored a second edge; the matrix has three rows, the
\* column of a self-loop (one 1) and the column of an edge between two
\* vertices (two 1s and a 0).
C2_Witness ==
    /\ lastOp.op = "addEdge" /\ lastOp.ret_im
    /\ Len(incidence_mat) = 3
    /\ \E c \in 1 .. Len(im_edges) : im_edges[c][1] = im_edges[c][2]
    /\ \E c \in 1 .. Len(im_edges) :
           /\ im_edges[c][1] /= im_edges[c][2]
           /\ \E r \in 1 .. Len(incidence_mat) : incidence_mat[r][c] = 0

----------------------------------------------------------------------------
\* C3: the matrix has one row per vertex and every row has one cell per
\* edge, also the rows that addVertex appends when edges already exist.
C3_MatrixShape ==
    /\ Len(incidence_mat) = Len(im_vertices)
    /\ \A r \in 1 .. Len(incidence_mat) : Len(incidence_mat[r]) = Len(im_edges)

\* addVertex has just appended a row while edges exist: the last row is
\* all zeros although every stored edge has its endpoints in earlier rows.
C3_Witness ==
    /\ lastOp.op = "addVertex"
    /\ Len(im_edges) >= 1
    /\ Len(incidence_mat) >= 2
    /\ \A c \in 1 .. Len(im_edges) : incidence_mat[Len(incidence_mat)][c] = 0

----------------------------------------------------------------------------
\* C4: for every step that is a call addEdge(v1, v2, wall), in both
\* backings: the call returns false and stores no edge when v1 or v2 is not
\* a vertex or the pair {v1, v2} already has an edge in either order;
\* otherwise it returns true and afterwards hasEdge(v1, v2) and
\* hasEdge(v2, v1) are true and getWallStatus(v1, v2) is wall.  A call
\* without the third argument is a call with wall = false.
C4_AddEdgeStep(v1, v2, wall) ==
    LET refusedEL == v1 \notin el_vertices \/ v2 \notin el_vertices
                     \/ StoresPair(el_edges, v1, v2)
        refusedIM == v1 \notin IM_keys(im_vertices) \/ v2 \notin IM_keys(im_vertices)
                     \/ StoresPair(im_edges, v1, v2)
    IN  /\ IF refusedEL
           THEN lastOp'.ret_el = FALSE /\ el_edges' = el_edges
           ELSE /\ lastOp'.ret_el = TRUE
                /\ Len(el_edges') = Len(el_edges) + 1
                /\ EL_hasEdge(el_edges', v1, v2)
                /\ EL_hasEdge(el_edges', v2, v1)
                /\ EL_getWallStatus(el_edges', v1, v2) = wall
        /\ IF refusedIM
           THEN lastOp'.ret_im = FALSE /\ im_edges' = im_edges
           ELSE /\ lastOp'.ret_im = TRUE
                /\ Len(im_edges') = Len(im_edges) + 1
                /\ IM_hasEdge(im_edges', v1, v2)
                /\ IM_hasEdge(im_edges', v2, v1)
                /\ IM_getWallStatus(im_edges', v1, v2) = wall

C4_AddEdgeContract ==
    [][ lastOp'.op = "addEdge" =>
          /\ \A p \in EdgeCalls, wall \in BOOLEAN :
                 AddEdge(p[1], p[2], wall) => C4_AddEdgeStep(p[1], p[2], wall)
          /\ \A p \in EdgeCalls :
                 AddEdgeDefault(p[1], p[2]) => C4_AddEdgeStep(p[1], p[2], FALSE) ]_vars

\* addEdge has just returned true in both backings and stored a walled
\* edge; a vertex is still missing and a pair of vertices still has no
\* edge, so all three outcomes of the next call are possible.
C4_Witness ==
    /\ lastOp.op = "addEdge" /\ lastOp.ret_el /\ lastOp.ret_im
    /\ Len(el_edges) = 1 /\ el_edges[1][3] = TRUE /\ im_edges = el_edges
    /\ EL_getWallStatus(el_edges, el_edges[1][2], el_edges[1][1])
    /\ \E v \in Coordinates : v \notin el_vertices
    /\ \E a \in el_vertices, b \in el_vertices : ~StoresPair(el_edges, a, b)

----------------------------------------------------------------------------
\* C5: in both backings the edge collection holds at most one entry per
\* unordered pair of vertices, and both endpoints of every stored edge are
\* members of the vertex set.
C5_NoMultiEdges ==
    /\ \A a \in Coordinates, b \in Coordinates :
           /\ Cardinality(PositionsOfPair(el_edges, a, b)) <= 1
           /\ Cardinality(PositionsOfPair(im_edges, a, b)) <= 1
    /\ \A k \in 1 .. Len(el_edges) :
           el_edges[k][1] \in el_vertices /\ el_edges[k][2] \in el_vertices
    /\ \A k \in 1 .. Len(im_edges) :
           im_edges[k][1] \in IM_keys(im_vertices) /\ im_edges[k][2] \in IM_keys(im_vertices)

\* A duplicate addEdge has just been refused while two edges are stored,
\* one of them with its endpoints in the order opposite to another call
\* that would name it.
C5_Witness ==
    /\ lastOp.op = "addEdge" /\ ~lastOp.ret_el /\ ~lastOp.ret_im
    /\ Len(el_edges) = 1 /\ Len(im_edges) = 1
    /\ el_edges[1][1] /= el_edges[1][2]
    /\ Cardinality(el_vertices) = 3
----------------------------------------------------------------------------
\* C6: in both backings and in every reachable state, neighbours(v) holds
\* no vertex twice and its elements are exactly the w with hasEdge(v, w).
C6_NeighboursExact ==
    \A v \in Coordinates :
        LET el == EL_neighbours(el_edges, v)
            im == IM_neighbours(im_vertices, im_edges, incidence_mat, v)
        IN  /\ NoRepeat(el)
            /\ NoRepeat(im)
            /\ Elements(el) = { w \in Coordinates : EL_hasEdge(el_edges, v, w) }
            /\ Elements(im) = { w \in Coordinates : IM_hasEdge(im_edges, v, w) }

\* A vertex with a self-loop and an edge to another vertex: its neighbours
\* are itself and the other vertex, each once, in both backings.
C6_Witness ==
    \E v \in Coordinates, w \in Coordinates :
        /\ v /= w
        /\ Elements(EL_neighbours(el_edges, v)) = { v, w }
        /\ Len(EL_neighbours(el_edges, v)) = 2
        /\ Elements(IM_neighbours(im_vertices, im_edges, incidence_mat, v)) = { v, w }
        /\ Len(IM_neighbours(im_vertices, im_edges, incidence_mat, v)) = 2

----------------------------------------------------------------------------
\* C7: for every step that is a call updateWall(v1, v2, status), in both
\* backings: when an edge joins the unordered pair {v1, v2} the call returns
\* true and afterwards getWallStatus(v1, v2) and getWallStatus(v2, v1) are
\* both status; when no edge joins the pair it returns false and the vertex
\* set, the edge collection with its wall flags and the matrix are unchanged.
C7_UpdateWallStep(v1, v2, status) ==
    /\ IF StoresPair(el_edges, v1, v2)
       THEN /\ lastOp'.ret_el = TRUE
            /\ EL_getWallStatus(el_edges', v1, v2) = status
            /\ EL_getWallStatus(el_edges', v2, v1) = status
            /\ \A k \in PositionsOfPair(el_edges', v1, v2) : el_edges'[k][3] = status
       ELSE /\ lastOp'.ret_el = FALSE
            /\ UNCHANGED << el_vertices, el_edges >>
    /\ IF StoresPair(im_edges, v1, v2)
       THEN /\ lastOp'.ret_im = TRUE
            /\ IM_getWallStatus(im_edges', v1, v2) = status
            /\ IM_getWallStatus(im_edges', v2, v1) = status
            /\ \A k \in PositionsOfPair(im_edges', v1, v2) : im_edges'[k][3] = status
       ELSE /\ lastOp'.ret_im = FALSE
            /\ UNCHANGED << im_vertices, im_edges, incidence_mat >>

C7_UpdateWallContract ==
    [][ lastOp'.op = "updateWall" =>
          \A v1 \in Coordinates, v2 \in Coordinates, status \in BOOLEAN :
              UpdateWall(v1, v2, status) => C7_UpdateWallStep(v1, v2, status) ]_vars

\* updateWall has just returned true in both backings and the second of
\* two stored edges now carries a wall while the first does not.
C7_Witness ==
    /\ lastOp.op = "updateWall" /\ lastOp.ret_el /\ lastOp.ret_im
    /\ Len(el_edges) = 2 /\ Len(im_edges) = 2
    /\ el_edges[2][3] = TRUE /\ el_edges[1][3] = FALSE
    /\ im_edges[2][3] = TRUE /\ im_edges[1][3] = FALSE
    /\ EL_getWallStatus(el_edges, el_edges[2][2], el_edges[2][1])
    /\ IM_getWallStatus(im_edges, im_edges[2][2], im_edges[2][1])

----------------------------------------------------------------------------
\* C8: for every step that is a call removeEdge(v1, v2), in both backings:
\* the call returns true exactly when an edge joins the unordered pair
\* {v1, v2} at the call; after a removal hasEdge(v1, v2) and
\* getWallStatus(v1, v2) are false and a further removeEdge(v1, v2) or
\* removeEdge(v2, v1) would return false.  A pair without an edge gets one
\* back only by an addEdge call that returns true.
C8_RemoveEdgeStep(v1, v2) ==
    /\ lastOp'.ret_el = StoresPair(el_edges, v1, v2)
    /\ lastOp'.ret_im = StoresPair(im_edges, v1, v2)
    /\ ~EL_hasEdge(el_edges', v1, v2)
    /\ ~IM_hasEdge(im_edges', v1, v2)
    /\ EL_getWallStatus(el_edges', v1, v2) = FALSE
    /\ IM_getWallStatus(im_edges', v1, v2) = FALSE
    /\ EL_removeEdge(el_edges', v1, v2).ret = FALSE
    /\ EL_removeEdge(el_edges', v2, v1).ret = FALSE
    /\ IM_removeEdge(im_edges', incidence_mat', v1, v2).ret = FALSE
    /\ IM_removeEdge(im_edges', incidence_mat', v2, v1).ret = FALSE

C8_RemoveEdgeContract ==
    [][ /\ lastOp'.op = "removeEdge" =>
              \A v1 \in Coordinates, v2 \in Coordinates :
                  RemoveEdge(v1, v2) => C8_RemoveEdgeStep(v1, v2)
        /\ (el_edges' /= el_edges \/ im_edges' /= im_edges) =>
              \A a \in Coordinates, b \in Coordinates :
                  /\ (~StoresPair(el_edges, a, b) /\ StoresPair(el_edges', a, b))
                         => (lastOp'.op = "addEdge" /\ lastOp'.ret_el)
                  /\ (~StoresPair(im_edges, a, b) /\ StoresPair(im_edges', a, b))
                         => (lastOp'.op = "addEdge" /\ lastOp'.ret_im) ]_vars

\* removeEdge has just returned true in both backings; one edge is left,
\* and it is a walled edge, so the false answer of getWallStatus for the
\* removed pair is not the flag of a stored edge.
C8_Witness ==
    /\ lastOp.op = "removeEdge" /\ lastOp.ret_el /\ lastOp.ret_im
    /\ Len(el_edges) = 1 /\ Len(im_edges) = 1
    /\ el_edges[1][3] = TRUE /\ im_edges[1][3] = TRUE

----------------------------------------------------------------------------
\* C9: in IncMatGraph, a removeEdge call that returns true deletes the edge
\* at one position i and column i of every matrix row: every edge formerly
\* at a position j > i is afterwards at j - 1 with its wall flag and its
\* column, every edge at a position j < i keeps its position, flag and
\* column, and the vertex index map is unchanged.
C9_RemovedAt(i) ==
    /\ Len(im_edges') = Len(im_edges) - 1
    /\ Len(incidence_mat') = Len(incidence_mat)
    /\ \A r \in 1 .. Len(incidence_mat') : Len(incidence_mat'[r]) = Len(incidence_mat[r]) - 1
    /\ \A j \in 1 .. (i - 1) :
           /\ im_edges'[j] = im_edges[j]
           /\ Column(incidence_mat', j) = Column(incidence_mat, j)
    /\ \A j \in (i + 1) .. Len(im_edges) :
           /\ im_edges'[j - 1] = im_edges[j]
           /\ Column(incidence_mat', j - 1) = Column(incidence_mat, j)
    /\ im_vertices' = im_vertices

C9_RemoveColumnFrame ==
    [][ (lastOp'.op = "removeEdge" /\ lastOp'.ret_im) =>
          \A v1 \in Coordinates, v2 \in Coordinates :
              RemoveEdge(v1, v2) =>
                  \E i \in PositionsOfPair(im_edges, v1, v2) : C9_RemovedAt(i) ]_vars

\* removeEdge has just returned true and deleted one of two columns: three
\* rows of one cell each are left, and the cell in the row of the remaining
\* edge's first endpoint is 1.
C9_Witness ==
    /\ lastOp.op = "removeEdge" /\ lastOp.ret_im
    /\ Len(im_edges) = 1
    /\ Len(incidence_mat) = 3
    /\ \A r \in 1 .. 3 : Len(incidence_mat[r]) = 1
    /\ incidence_mat[IM_index(im_vertices, im_edges[1][1]) + 1][1] = 1

----------------------------------------------------------------------------
\* C10: in IncMatGraph the vertex index map is one-to-one, the k-th distinct
\* vertex added (counting from 0) has index k, and an index once given never
\* changes, whatever call follows.  The items of the dict are in the order
\* in which their keys were first added.
C10_IndexOfKthAdded(vertices) ==
    /\ \A k \in 1 .. Len(vertices) : vertices[k][2] = k - 1
    /\ \A j \in 1 .. Len(vertices), k \in 1 .. Len(vertices) :
           (vertices[j][1] = vertices[k][1] \/ vertices[j][2] = vertices[k][2]) => j = k

C10_StableIndexMap ==
    [][ /\ C10_IndexOfKthAdded(im_vertices')
        /\ Len(im_vertices') >= Len(im_vertices)
        /\ \A k \in 1 .. Len(im_vertices) : im_vertices'[k] = im_vertices[k]
        /\ \A v \in IM_keys(im_vertices) :
               IM_index(im_vertices', v) = IM_index(im_vertices, v) ]_vars

\* Three vertices have their indices 0, 1, 2 and the last call was a
\* removeEdge that returned true and left one edge: the index map has lived
\* through vertex additions, edge additions and a removal.
C10_Witness ==
    /\ Len(im_vertices) = 3
    /\ im_vertices[3][2] = 2
    /\ Len(im_edges) = 1
    /\ lastOp.op = "removeEdge" /\ lastOp.ret_im

----------------------------------------------------------------------------
\* C11: in both backings hasVertex(v) is false for every v on a fresh
\* graph and true right after addVertex(v); an addVertex(v) for a v that is
\* already a vertex leaves hasVertex(v) true and changes nothing else: not
\* the other vertices, the edges, the wall flags, the index map or the
\* matrix.  An addVertex(v) for a new v changes the membership of v alone.
C11_AddVertexStep(v) ==
    /\ EL_hasVertex(el_vertices', v)
    /\ IM_hasVertex(im_vertices', v)
    /\ \A u \in Coordinates \ { v } :
           /\ EL_hasVertex(el_vertices', u) = EL_hasVertex(el_vertices, u)
           /\ IM_hasVertex(im_vertices', u) = IM_hasVertex(im_vertices, u)
    /\ UNCHANGED << el_edges, im_edges >>
    /\ v \in el_vertices => UNCHANGED el_vertices
    /\ v \in IM_keys(im_vertices) => UNCHANGED << im_vertices, incidence_mat >>

C11_AddVertexIdempotent ==
    [][ /\ lastOp.op = "init" =>
              \A v \in Coordinates :
                  ~EL_hasVertex(el_vertices, v) /\ ~IM_hasVertex(im_vertices, v)
        /\ lastOp'.op = "addVertex" =>
              \A v \in Coordinates : AddVertex(v) => C11_AddVertexStep(v) ]_vars

\* addVertex has just been called while all three labels are vertices, so
\* the call was a repeated one; an edge is stored, and the matrix still
\* has its three rows of one cell.
C11_Witness ==
    /\ lastOp.op = "addVertex"
    /\ Cardinality(el_vertices) = 3 /\ Len(im_vertices) = 3
    /\ Len(im_edges) = 1 /\ Len(el_edges) = 1
    /\ Len(incidence_mat) = 3
    /\ \A r \in 1 .. 3 : Len(incidence_mat[r]) = 1

----------------------------------------------------------------------------
\* C12: in both backings an addEdge call that returns false leaves the
\* whole state unchanged; in particular a duplicate addEdge(v1, v2, wall),
\* in either endpoint order and whatever its wall argument, returns false
\* and getWallStatus(v1, v2) keeps the flag the stored edge had.
C12_DuplicateStep(v1, v2) ==
    /\ StoresPair(el_edges, v1, v2) =>
           /\ lastOp'.ret_el = FALSE
           /\ EL_getWallStatus(el_edges', v1, v2) = EL_getWallStatus(el_edges, v1, v2)
           /\ EL_getWallStatus(el_edges', v2, v1) = EL_getWallStatus(el_edges, v1, v2)
    /\ StoresPair(im_edges, v1, v2) =>
           /\ lastOp'.ret_im = FALSE
           /\ IM_getWallStatus(im_edges', v1, v2) = IM_getWallStatus(im_edges, v1, v2)
           /\ IM_getWallStatus(im_edges', v2, v1) = IM_getWallStatus(im_edges, v1, v2)

C12_FailedAddEdgeNoChange ==
    [][ lastOp'.op = "addEdge" =>
          /\ ~lastOp'.ret_el => UNCHANGED << el_vertices, el_edges >>
          /\ ~lastOp'.ret_im => UNCHANGED << im_vertices, im_edges, incidence_mat >>
          /\ \A p \in EdgeCalls, wall \in BOOLEAN :
                 AddEdge(p[1], p[2], wall) => C12_DuplicateStep(p[1], p[2]) ]_vars

\* addEdge has just returned false in both backings although all three
\* labels are vertices, so the call named the pair of the one stored edge;
\* that edge still carries its wall.
C12_Witness ==
    /\ lastOp.op = "addEdge" /\ ~lastOp.ret_el /\ ~lastOp.ret_im
    /\ Cardinality(el_vertices) = 3 /\ Len(im_vertices) = 3
    /\ Len(el_edges) = 1 /\ Len(im_edges) = 1
    /\ el_edges[1][3] = TRUE /\ im_edges[1][3] = TRUE
    /\ EL_getWallStatus(el_edges, el_edges[1][1], el_edges[1][2])
    /\ IM_getWallStatus(im_edges, im_edges[1][1], im_edges[1][2])

----------------------------------------------------------------------------
\* C13: in both backings getWallStatus(v1, v2) is the flag written by the
\* latest successful addEdge or updateWall on the pair {v1, v2} while an
\* edge for the pair exists, and false when none exists (never added,
\* removed, or an endpoint that is no vertex); it gives the same answer
\* for (v1, v2) and (v2, v1).  "Latest" is stated step by step: a
\* successful addEdge or updateWall makes the answer for its pair equal to
\* its flag and keeps every other pair's answer, and no other step changes
\* the answer for a pair that still has an edge.
C13_Symmetric ==
    \A a \in Coordinates, b \in Coordinates :
        /\ EL_getWallStatus(el_edges, a, b) = EL_getWallStatus(el_edges, b, a)
        /\ IM_getWallStatus(im_edges, a, b) = IM_getWallStatus(im_edges, b, a)

C13_FalseWithoutEdge ==
    \A a \in Coordinates, b \in Coordinates :
        /\ ~StoresPair(el_edges, a, b) \/ a \notin el_vertices \/ b \notin el_vertices
               => EL_getWallStatus(el_edges, a, b) = FALSE
        /\ ~StoresPair(im_edges, a, b) \/ a \notin IM_keys(im_vertices)
                                       \/ b \notin IM_keys(im_vertices)
               => IM_getWallStatus(im_edges, a, b) = FALSE

\* A step that wrote flag for the pair {v1, v2}: the pair answers flag, and
\* if the list changed at all, every other pair answers as before.
C13_Written(v1, v2, flag) ==
    /\ lastOp'.ret_el =>
           /\ EL_getWallStatus(el_edges', v1, v2) = flag
           /\ el_edges' /= el_edges =>
                  \A a \in Coordinates, b \in Coordinates :
                      { a, b } /= { v1, v2 } =>
                          EL_getWallStatus(el_edges', a, b) = EL_getWallStatus(el_edges, a, b)
    /\ lastOp'.ret_im =>
           /\ IM_getWallStatus(im_edges', v1, v2) = flag
           /\ im_edges' /= im_edges =>
                  \A a \in Coordinates, b \in Coordinates :
                      { a, b } /= { v1, v2 } =>
                          IM_getWallStatus(im_edges', a, b) = IM_getWallStatus(im_edges, a, b)

\* A step of backing el / im that wrote nothing.
C13_Kept(edgesBefore, edgesAfter, wallBefore(_, _), wallAfter(_, _)) ==
    \A a \in Coordinates, b \in Coordinates :
        StoresPair(edgesAfter, a, b) =>
            /\ StoresPair(edgesBefore, a, b)
            /\ wallAfter(a, b) = wallBefore(a, b)

\* A step that leaves an edge list as it was keeps every answer computed
\* from it, so the last two conjuncts look only at steps that changed it.
C13_WallStatusIsLatestWrite ==
    /\ []C13_Symmetric
    /\ []C13_FalseWithoutEdge
    /\ [][
        /\ lastOp'.op = "addEdge" /\ (lastOp'.ret_el \/ lastOp'.ret_im) =>
              \A p \in EdgeCalls, wall \in BOOLEAN :
                  AddEdge(p[1], p[2], wall) => C13_Written(p[1], p[2], wall)
        /\ lastOp'.op = "updateWall" /\ (lastOp'.ret_el \/ lastOp'.ret_im) =>
              \A v1 \in Coordinates, v2 \in Coordinates, status \in BOOLEAN :
                  UpdateWall(v1, v2, status) => C13_Written(v1, v2, status)
        /\ el_edges' /= el_edges
              /\ ~(lastOp'.op \in { "addEdge", "updateWall" } /\ lastOp'.ret_el) =>
              LET before(a, b) == EL_getWallStatus(el_edges, a, b)
                  after(a, b) == EL_getWallStatus(el_edges', a, b)
              IN  C13_Kept(el_edges, el_edges', before, after)
        /\ im_edges' /= im_edges
              /\ ~(lastOp'.op \in { "addEdge", "updateWall" } /\ lastOp'.ret_im) =>
              LET before(a, b) == IM_getWallStatus(im_edges, a, b)
                  after(a, b) == IM_getWallStatus(im_edges', a, b)
              IN  C13_Kept(im_edges, im_edges', before, after) ]_vars

\* updateWall has just succeeded in both backings; of the two stored edges
\* the first carries a wall and the second does not, getWallStatus says so
\* in both endpoint orders, and it is false for the pair without an edge.
C13_Witness ==
    /\ lastOp.op = "updateWall" /\ lastOp.ret_el /\ lastOp.ret_im
    /\ Len(el_edges) = 2 /\ Len(im_edges) = 2
    /\ el_edges[1][1] /= el_edges[1][2] /\ el_edges[2][1] /= el_edges[2][2]
    /\ EL_getWallStatus(el_edges, el_edges[1][2], el_edges[1][1]) = TRUE
    /\ IM_getWallStatus(im_edges, im_edges[1][2], im_edges[1][1]) = TRUE
    /\ EL_getWallStatus(el_edges, el_edges[2][2], el_edges[2][1]) = FALSE
    /\ IM_getWallStatus(im_edges, im_edges[2][2], im_edges[2][1]) = FALSE
    /\ \E a \in Coordinates, b \in Coordinates :
           /\ a /= b /\ ~StoresPair(el_edges, a, b) /\ ~StoresPair(im_edges, a, b)
           /\ ~EL_getWallStatus(el_edges, a, b) /\ ~IM_getWallStatus(im_edges, a, b)

----------------------------------------------------------------------------
\* C14: the vertex set only grows: in both backings no step (addVertex,
\* addVertices, addEdge, updateWall, removeEdge) makes hasVertex(v) false
\* once it is true, hence it stays true in every later state.
C14_VertexSetOnlyGrows ==
    [][ \A v \in Coordinates :
            /\ EL_hasVertex(el_vertices, v) => EL_hasVertex(el_vertices', v)
            /\ IM_hasVertex(im_vertices, v) => IM_hasVertex(im_vertices', v) ]_vars

\* All three labels are still vertices of both backings after edges were
\* added and the last of them has just been removed.
C14_Witness ==
    /\ lastOp.op = "removeEdge" /\ lastOp.ret_el /\ lastOp.ret_im
    /\ el_edges = << >> /\ im_edges = << >>
    /\ \A v \in Coordinates : EL_hasVertex(el_vertices, v) /\ IM_hasVertex(im_vertices, v)

----------------------------------------------------------------------------
\* C15 as stated: every edge stored in either backing joins two distinct
\* vertices.  addVertex(v) followed by addEdge(v, v) stores (v, v, wall).
C15_DistinctEndpoints ==
    /\ \A k \in 1 .. Len(el_edges) : el_edges[k][1] /= el_edges[k][2]
    /\ \A k \in 1 .. Len(im_edges) : im_edges[k][1] /= im_edges[k][2]

\* Both endpoints of every stored edge are current vertices.
C15_EndpointsAreVertices ==
    /\ \A k \in 1 .. Len(el_edges) :
           EL_hasVertex(el_vertices, el_edges[k][1]) /\ EL_hasVertex(el_vertices, el_edges[k][2])
    /\ \A k \in 1 .. Len(im_edges) :
           IM_hasVertex(im_vertices, im_edges[k][1]) /\ IM_hasVertex(im_vertices, im_edges[k][2])

\* The labels v whose self-loop (v, v, _) is in the list.
C15_Loops(edges) ==
    { edges[k][1] : k \in { j \in 1 .. Len(edges) : edges[j][1] = edges[j][2] } }

\* C15, amended: every edge stored in either backing joins two current
\* vertices, and they are distinct unless the edge is a self-loop (v, v),
\* which enters the list only through a successful addEdge(v, v).
C15_LoopsOnlyFromAddEdgeVV ==
    /\ []C15_EndpointsAreVertices
    /\ [][ /\ \A v \in C15_Loops(el_edges') \ C15_Loops(el_edges) :
                 /\ lastOp'.op = "addEdge" /\ lastOp'.ret_el
                 /\ \E p \in EdgeCalls, wall \in BOOLEAN :
                        p[1] = v /\ p[2] = v /\ AddEdge(p[1], p[2], wall)
           /\ \A v \in C15_Loops(im_edges') \ C15_Loops(im_edges) :
                 /\ lastOp'.op = "addEdge" /\ lastOp'.ret_im
                 /\ \E p \in EdgeCalls, wall \in BOOLEAN :
                        p[1] = v /\ p[2] = v /\ AddEdge(p[1], p[2], wall) ]_vars

\* A successful addEdge has just stored an edge with distinct endpoints
\* behind a self-loop that was stored before it, in both backings.
C15_Witness ==
    /\ lastOp.op = "addEdge" /\ lastOp.ret_el /\ lastOp.ret_im
    /\ Len(el_edges) = 2 /\ Len(im_edges) = 2
    /\ el_edges[1][1] = el_edges[1][2] /\ el_edges[2][1] /= el_edges[2][2]
    /\ im_edges[1][1] = im_edges[1][2] /\ im_edges[2][1] /= im_edges[2][2]

----------------------------------------------------------------------------
\* How many places of the list hold x.
C16_Occurrences(l, x) == Cardinality({ k \in 1 .. Len(l) : l[k] = x })

\* What the calls answer while the self-loop on v is stored.
C16_LoopStored_EL(vertices, edges, v) ==
    /\ EL_hasEdge(edges, v, v)
    /\ C16_Occurrences(EL_neighbours(edges, v), v) = 1
    /\ \A wall \in BOOLEAN : EL_addEdge(vertices, edges, v, v, wall).ret = FALSE
    /\ LET removed == EL_removeEdge(edges, v, v)
       IN  removed.ret = TRUE /\ ~EL_hasEdge(removed.edges, v, v)

C16_LoopStored_IM(vertices, edges, mat, v) ==
    /\ IM_hasEdge(edges, v, v)
    /\ C16_Occurrences(IM_neighbours(vertices, edges, mat, v), v) = 1
    /\ \A wall \in BOOLEAN : IM_addEdge(vertices, edges, mat, v, v, wall).ret = FALSE
    /\ LET removed == IM_removeEdge(edges, mat, v, v)
       IN  removed.ret = TRUE /\ ~IM_hasEdge(removed.edges, v, v)

----------------------------------------------------------------------------
\* The state of each backing after addVertex on l[1], then on l[2], for a
\* list l of at most two labels.
C17_OneByOne_EL(l) ==
    IF Len(l) = 0 THEN el_vertices
    ELSE IF Len(l) = 1 THEN EL_addVertex(el_vertices, l[1])
    ELSE EL_addVertex(EL_addVertex(el_vertices, l[1]), l[2])

C17_OneByOne_IM(l) ==
    LET start == [ vertices |-> im_vertices, mat |-> incidence_mat ]
        first == IM_addVertex(im_vertices, im_edges, incidence_mat, l[1])
    IN  IF Len(l) = 0 THEN start
        ELSE IF Len(l) = 1 THEN first
        ELSE IM_addVertex(first.vertices, im_edges, first.mat, l[2])

\* C17: in both backings addVertices(list) ends in exactly the state that
\* addVertex on each element of the list, in order, ends in: the same
\* vertex set, for IncMatGraph the same index map and the same matrix, and
\* the edges untouched; also when the list repeats a label or names a
\* label that is already a vertex.
C17_AddVerticesIsAddVertexInOrder ==
    [][ lastOp'.op = "addVertices" =>
          \A l \in VertexLists :
              AddVertices(l) =>
                  /\ el_vertices' = C17_OneByOne_EL(l)
                  /\ im_vertices' = C17_OneByOne_IM(l).vertices
                  /\ incidence_mat' = C17_OneByOne_IM(l).mat
                  /\ UNCHANGED << el_edges, im_edges >> ]_vars

\* addVertices was the last call; the self-loop on the first vertex was
\* stored when it was the only vertex or later, and the rows of the second
\* and third vertex hold a 0 in its column.
C17_Witness ==
    /\ lastOp.op = "addVertices"
    /\ Cardinality(el_vertices) = 3 /\ Len(im_vertices) = 3
    /\ Len(im_edges) = 1 /\ im_edges[1][1] = im_edges[1][2]
    /\ im_vertices[1][1] = im_edges[1][1]
    /\ incidence_mat = << << 1 >>, << 0 >>, << 0 >> >>

----------------------------------------------------------------------------
\* C18: in every reachable state and in both backings neighbours(v) is the
\* empty list for every label v that is not a current vertex: IncMatGraph
\* tests hasVertex first, and EdgeListGraph, which does not, finds no
\* stored edge with v as an endpoint.
C18_NoNeighboursOfNonVertex ==
    \A v \in Coordinates :
        /\ ~EL_hasVertex(el_vertices, v) =>
               /\ EL_neighbours(el_edges, v) = << >>
               /\ \A k \in 1 .. Len(el_edges) : el_edges[k][1] /= v /\ el_edges[k][2] /= v
        /\ ~IM_hasVertex(im_vertices, v) =>
               IM_neighbours(im_vertices, im_edges, incidence_mat, v) = << >>

\* Two edges are stored on two vertices; the third label is no vertex and
\* has no neighbours, while each vertex has some.
C18_Witness ==
    /\ Cardinality(el_vertices) = 2 /\ Len(im_vertices) = 2
    /\ Len(el_edges) = 2 /\ Len(im_edges) = 2
    /\ \E v \in Coordinates :
           /\ ~EL_hasVertex(el_vertices, v) /\ ~IM_hasVertex(im_vertices, v)
           /\ EL_neighbours(el_edges, v) = << >>
           /\ IM_neighbours(im_vertices, im_edges, incidence_mat, v) = << >>
    /\ \A u \in el_vertices :
           /\ EL_neighbours(el_edges, u) /= << >>
           /\ IM_neighbours(im_vertices, im_edges, incidence_mat, u) /= << >>

----------------------------------------------------------------------------
\* C19: after the same calls on both objects the two edge collections are
\* the same list of (v1, v2, wall) tuples, so neighbours(v) is the same
\* list (same vertices, same order) in both backings for every v, and the
\* last mutating call returned the same boolean in both.
C19_SameEdgeLists ==
    /\ el_edges = im_edges
    /\ \A v \in Coordinates :
           EL_neighbours(el_edges, v)
               = IM_neighbours(im_vertices, im_edges, incidence_mat, v)
    /\ lastOp.ret_el = lastOp.ret_im

\* updateWall has just returned true in both backings; some vertex has two
\* different neighbours, listed in the same order by both.
C19_Witness ==
    /\ lastOp.op = "updateWall" /\ lastOp.ret_el /\ lastOp.ret_im
    /\ Len(el_edges) = 2 /\ el_edges = im_edges
    /\ \E v \in Coordinates :
           LET nel == EL_neighbours(el_edges, v)
               nim == IM_neighbours(im_vertices, im_edges, incidence_mat, v)
           IN  Len(nel) = 2 /\ nel[1] /= nel[2] /\ nim = nel

----------------------------------------------------------------------------
\* The list after has the length of the list before and every entry keeps
\* its place and its two endpoints in the order they were stored.
C20_SamePlacesAndEndpoints(before, after) ==
    /\ Len(after) = Len(before)
    /\ \A k \in 1 .. Len(before) :
           after[k][1] = before[k][1] /\ after[k][2] = before[k][2]

\* Entries that do not join {v1, v2} keep their wall flag.
C20_OtherFlagsKept(before, after, v1, v2) ==
    \A k \in 1 .. Len(before) :
        { before[k][1], before[k][2] } /= { v1, v2 } => after[k][3] = before[k][3]

\* C20: a successful updateWall(v1, v2, status) changes nothing but the
\* wall flag of the edge joining {v1, v2}: every edge keeps its position
\* and its stored endpoint order, every other edge keeps its flag, the
\* vertex set is the same, in IncMatGraph the index map and the matrix
\* are the same, and hasEdge and neighbours answer as before.
C20_UpdateWallFrame ==
    [][ lastOp'.op = "updateWall" /\ (lastOp'.ret_el \/ lastOp'.ret_im) =>
          /\ UNCHANGED << el_vertices, im_vertices, incidence_mat >>
          /\ C20_SamePlacesAndEndpoints(el_edges, el_edges')
          /\ C20_SamePlacesAndEndpoints(im_edges, im_edges')
          /\ \A a \in Coordinates, b \in Coordinates :
                 /\ EL_hasEdge(el_edges', a, b) = EL_hasEdge(el_edges, a, b)
                 /\ IM_hasEdge(im_edges', a, b) = IM_hasEdge(im_edges, a, b)
          /\ \A v \in Coordinates :
                 /\ EL_neighbours(el_edges', v) = EL_neighbours(el_edges, v)
                 /\ IM_neighbours(im_vertices', im_edges', incidence_mat', v)
                        = IM_neighbours(im_vertices, im_edges, incidence_mat, v)
          /\ el_edges' /= el_edges \/ im_edges' /= im_edges =>
                 \A v1 \in Coordinates, v2 \in Coordinates, status \in BOOLEAN :
                     UpdateWall(v1, v2, status) =>
                         /\ C20_OtherFlagsKept(el_edges, el_edges', v1, v2)
                         /\ C20_OtherFlagsKept(im_edges, im_edges', v1, v2) ]_vars

\* updateWall has just returned true in both backings; two edges joining
\* different pairs are stored, the first without a wall and the second
\* with one, and the matrix has its three rows.
C20_Witness ==
    /\ lastOp.op = "updateWall" /\ lastOp.ret_el /\ lastOp.ret_im
    /\ Len(el_edges) = 2 /\ Len(im_edges) = 2 /\ Len(incidence_mat) = 3
    /\ { el_edges[1][1], el_edges[1][2] } /= { el_edges[2][1], el_edges[2][2] }
    /\ el_edges[1][3] = FALSE /\ el_edges[2][3] = TRUE
    /\ im_edges[1][3] = FALSE /\ im_edges[2][3] = TRUE

====
